---- MODULE Spec2Model ----
(***************************************************************************)
(* Model of the letsblockit list download / export handlers                *)
(* (server.renderList, server.exportList, convertFilterList) over the      *)
(* filter_lists / filter_instances tables accessed through the sqlc        *)
(* queries of src/db/qInstances.sql.go.                                    *)
(*                                                                         *)
(* Strings are modelled as sequences of naturals, so that concatenation    *)
(* and equality of Etag values are computed, not assumed.  Filter names    *)
(* are naturals in their lexicographic order.  Timestamps are clock ticks; *)
(* TicksPerSecond ticks make one second.                                   *)
(***************************************************************************)
EXTENDS Integers, Sequences, FiniteSets, TLC

\* ---------------------------------------------------------------- bounds
MaxClock == 2          \* last clock tick of a behaviour
TicksPerSecond == 2    \* sub-second resolution of NOW()
MaxToken == 4          \* tokens (uuids) that can ever be issued
MaxFilter == 3         \* filter names 1..MaxFilter, ascending order
MaxInput == 3          \* lines of a filter definition source
MaxMutable == 1        \* filter names 1..MaxMutable are created, updated, deleted

Users == {1, 2}
ListIds == {1, 2}
UUIDs == 1..MaxToken
FilterNames == 1..MaxFilter
CustomRulesFilterName == 2
Payloads == {"{}", "[]"}
Anonymous == 0

\* s.filterHash: the hash of the filter templates, fixed for the process
filterHash == <<7>>
NoEtag == << >>

VARIABLES
    filter_lists,      \* table: list id -> [user_id, token, downloaded]
    filter_instances,  \* table: set of rows
    bans,              \* the ban registry: set of banned user ids
    now,               \* the store's clock, in ticks
    issued,            \* number of tokens issued so far
    resp               \* the request being answered: inputs, steps, outcome

vars == <<filter_lists, filter_instances, bans, now, issued, resp>>

\* ------------------------------------------------------------ the store
Row(l, u, f, p, tm, ts) ==
    [filter_list_id |-> l, user_id |-> u, filter_name |-> f,
     params |-> p, test_mode |-> tm, updated_at |-> ts]

MaxOf(S) == CHOOSE x \in S : \A y \in S : y <= x

\* the tables a statement reads
Db == [lists |-> filter_lists, instances |-> filter_instances]

\* SELECT ... FROM filter_lists WHERE token = $1, with the list's latest
\* instance change as last_updated (NULL when the list has no instance)
GetListForTokenIn(db, token) ==
    IF \E l \in ListIds : db.lists[l].token = token
    THEN LET l == CHOOSE l \in ListIds : db.lists[l].token = token
             stamps == {r.updated_at : r \in {x \in db.instances : x.filter_list_id = l}}
         IN [found |-> TRUE, ID |-> l, UserID |-> db.lists[l].user_id,
             LastUpdated |-> IF stamps = {} THEN [valid |-> FALSE, time |-> 0]
                             ELSE [valid |-> TRUE, time |-> MaxOf(stamps)]]
    ELSE [found |-> FALSE, ID |-> 0, UserID |-> 0,
          LastUpdated |-> [valid |-> FALSE, time |-> 0]]

GetListForToken(token) == GetListForTokenIn(Db, token)

RECURSIVE OrderByFilterName(_, _)
OrderByFilterName(rows, n) ==
    IF n > MaxFilter THEN << >>
    ELSE LET here == {r \in rows : r.filter_name = n}
         IN (IF here = {} THEN << >>
             ELSE LET r == CHOOSE r \in here : TRUE
                  IN <<[FilterName |-> r.filter_name, Params |-> r.params,
                        TestMode |-> r.test_mode]>>)
            \o OrderByFilterName(rows, n + 1)

\* SELECT filter_name, params, test_mode FROM filter_instances
\* WHERE filter_list_id = $1 ORDER BY filter_name ASC
GetInstancesForListIn(db, filterListID) ==
    OrderByFilterName({r \in db.instances : r.filter_list_id = filterListID}, 1)

GetInstancesForList(filterListID) == GetInstancesForListIn(Db, filterListID)

\* UPDATE filter_lists SET downloaded = true WHERE token = $1
MarkListDownloaded(token) ==
    [l \in ListIds |->
        IF filter_lists[l].token = token
        THEN [filter_lists[l] EXCEPT !.downloaded = TRUE]
        ELSE filter_lists[l]]

IsBanned(user) == user \in bans

\* ------------------------------------------------------- request inputs
\* The token path parameter: the text "abc" (id = Malformed) or the text of
\* uuid number id, followed by `suffixes` copies of ".txt".
Malformed == 0
RawParam(id, n) == [id |-> id, suffixes |-> n]

\* strings.TrimSuffix(param, renderListSuffix): drops one trailing ".txt"
TrimSuffix(raw) ==
    IF raw.suffixes > 0 THEN [raw EXCEPT !.suffixes = @ - 1] ELSE raw

\* uuid.Parse: succeeds only on the bare text of a uuid
uuidParse_lenient(raw) == [ok |-> raw.id \in UUIDs, token |-> raw.id]
uuidParse(raw) ==
    [ok |-> raw.suffixes = 0 /\ raw.id \in UUIDs, token |-> raw.id]

\* getEtag(c): the validator of the If-None-Match header, "" when absent
getEtag(ifNoneMatch) == ifNoneMatch

\* ts.UTC().Format("15040520060102"): hour, minute, second, year, month,
\* day; everything below the second is dropped
Format(ts) == <<ts \div TicksPerSecond>>

\* the domain of the official instance, and the Host headers of requests
mainDomain == "main.domain"
Hosts == {mainDomain, "self.hosted"}

\* a transaction that has begun and run no statement yet
TxStart ==
    [done |-> FALSE, status |-> "tx-ok", error |-> "", trace |-> <<"Begin">>,
     found |-> FALSE, list |-> 0, owner |-> 0,
     lastUpdated |-> [valid |-> FALSE, time |-> 0],
     marks |-> 0, computed |-> NoEtag, etagMatch |-> FALSE, rows |-> << >>]

\* host is the request's Host header and official the OfficialInstance
\* option of the server that answers it.
\* phase, tx, snapshot, history and pending describe a request whose
\* handler is run statement by statement: where it stands, its transaction
\* so far, the tables when the transaction began, the tables as they were at
\* any moment since, and the fragments still to write
Idle ==
    [handler |-> "none", raw |-> RawParam(Malformed, 0), validator |-> NoEtag,
     referer |-> FALSE, caller |-> Anonymous, fault |-> "none",
     host |-> mainDomain, official |-> TRUE,
     revalidation |-> FALSE,
     status |-> "none", error |-> "", trace |-> << >>,
     list |-> 0, marks |-> 0, committed |-> FALSE,
     computed |-> NoEtag, etagPresent |-> FALSE, etagMatch |-> FALSE,
     stats |-> << >>, etag |-> NoEtag, rows |-> << >>, instances |-> << >>,
     body |-> << >>,
     phase |-> "none", tx |-> TxStart,
     snapshot |-> [lists |-> << >>, instances |-> {}], history |-> {},
     pending |-> << >>]

InFlight(r) == r.phase # "none"

\* ------------------------------------------------------ convertFilterList
\* (the row field convertFilterList reads as TemplateName is the FilterName
\* column of GetInstancesForListRow)
\* pgtype.JSONB.AssignTo(&map): fails unless the payload is a JSON object
AssignTo(params) ==
    IF params = "{}" THEN [ok |-> TRUE, value |-> "map[]"]
    ELSE [ok |-> FALSE, value |-> ""]

\* lines 176-178: the custom rules go after the other instances
appendCustom_front(instances, customFilterInstances) ==
    customFilterInstances \o instances
appendCustom(instances, customFilterInstances) ==
    IF Len(customFilterInstances) > 0
    THEN instances \o customFilterInstances
    ELSE instances

\* lines 161-175: one instance per stored instance; the first payload that
\* does not decode ends the conversion with the error and no list
RECURSIVE convertLoop_skipping(_, _, _, _)
RECURSIVE convertLoop(_, _, _, _)
convertLoop_skipping(storedInstances, i, instances, customFilterInstances) ==
    IF i > Len(storedInstances)
    THEN [ok |-> TRUE,
          Instances |-> appendCustom(instances, customFilterInstances)]
    ELSE LET storedInstance == storedInstances[i]
             decoded == AssignTo(storedInstance.Params)
             instance == [Template |-> storedInstance.FilterName,
                          Params |-> decoded.value,
                          TestMode |-> storedInstance.TestMode]
         IN IF ~decoded.ok
            THEN convertLoop_skipping(storedInstances, i + 1, instances,
                                      customFilterInstances)
            ELSE IF instance.Template = CustomRulesFilterName
            THEN convertLoop_skipping(storedInstances, i + 1, instances,
                                      Append(customFilterInstances, instance))
            ELSE convertLoop_skipping(storedInstances, i + 1,
                                      Append(instances, instance),
                                      customFilterInstances)
convertLoop(storedInstances, i, instances, customFilterInstances) ==
    IF i > Len(storedInstances)
    THEN [ok |-> TRUE,
          Instances |-> appendCustom(instances, customFilterInstances)]
    ELSE LET storedInstance == storedInstances[i]
             decoded == AssignTo(storedInstance.Params)
             instance == [Template |-> storedInstance.FilterName,
                          Params |-> decoded.value,
                          TestMode |-> storedInstance.TestMode]
         IN IF ~decoded.ok THEN [ok |-> FALSE, Instances |-> << >>]
            ELSE IF instance.Template = CustomRulesFilterName
            THEN convertLoop(storedInstances, i + 1, instances,
                             Append(customFilterInstances, instance))
            ELSE convertLoop(storedInstances, i + 1,
                             Append(instances, instance), customFilterInstances)

convertFilterList(storedInstances) ==
    convertLoop(storedInstances, 1, << >>, << >>)

\* lines 35-38 and 116-119: if err != nil { return echo.ErrNotFound }
parseFailure_badRequest(request) ==
    [status |-> "Error", error |-> "invalid UUID", trace |-> <<"Parse">>]
    @@ request
parseFailure(request) ==
    [status |-> "NotFound", trace |-> <<"Parse">>] @@ request

\* -------------------------------------------------------------- renderList
\* The transaction function handed to s.store.RunTx (lines 48-80) is a
\* sequence of stages.  Each stage takes the transaction so far (t) and
\* either lets it go on or ends it with the error the function returns;
\* t.trace lists the statements run, in order.
Stop(t, status, error) ==
    [t EXCEPT !.done = TRUE, !.status = status, !.error = error]

\* lines 50-55: storedList, e = q.GetListForToken(ctx, token)
stageResolveIn(db, t, token, fault) ==
    IF t.done THEN t
    ELSE LET storedList == GetListForTokenIn(db, token)
             ran == [t EXCEPT !.trace = Append(@, "GetListForToken")]
         IN IF fault # "GetListForToken" /\ ~storedList.found
            THEN Stop(ran, "NotFound", "")
            ELSE IF fault = "GetListForToken"
            THEN Stop(ran, "Error", "failed to get list")
            ELSE [ran EXCEPT !.found = TRUE, !.list = storedList.ID,
                             !.owner = storedList.UserID,
                             !.lastUpdated = storedList.LastUpdated]

stageResolve(t, token, fault) == stageResolveIn(Db, t, token, fault)

\* lines 56-57: case s.bans.IsBanned(storedList.UserID)
stageBan_skipped(t) == t
stageBan(t) ==
    IF t.done THEN t
    ELSE LET ran == [t EXCEPT !.trace = Append(@, "IsBanned")]
         IN IF IsBanned(t.owner) THEN Stop(ran, "Forbidden", "") ELSE ran

\* lines 60-65: the list is marked when the request has no Referer
stageMark_anyReferer(t, referer, fault) ==
    IF t.done THEN t
    ELSE LET ran == [t EXCEPT !.trace = Append(@, "MarkListDownloaded")]
         IN IF fault = "MarkListDownloaded"
            THEN Stop(ran, "Error", "failed to mark list download")
            ELSE [ran EXCEPT !.marks = @ + 1]
stageMark(t, referer, fault) ==
    IF t.done \/ referer THEN t
    ELSE LET ran == [t EXCEPT !.trace = Append(@, "MarkListDownloaded")]
         IN IF fault = "MarkListDownloaded"
            THEN Stop(ran, "Error", "failed to mark list download")
            ELSE [ran EXCEPT !.marks = @ + 1]

\* lines 43, 67-69: listETag = s.filterHash, plus the formatted timestamp
\* when the list has one
listETagOf(lastUpdated) ==
    filterHash \o (IF lastUpdated.valid THEN Format(lastUpdated.time)
                   ELSE << >>)

\* line 70: etagMatch = listETag == requestETag
etagMatches_anyValidator(listETag, requestETag) == requestETag # NoEtag
etagMatches_hashOnly(listETag, requestETag) == filterHash = requestETag
etagMatches(listETag, requestETag) == listETag = requestETag

\* lines 67-73: compute the fingerprint, compare, return nil on a match
stageCompare(t, requestETag) ==
    IF t.done THEN t
    ELSE LET listETag == listETagOf(t.lastUpdated)
             ran == [t EXCEPT !.trace = Append(@, "CompareEtag"),
                              !.computed = listETag]
         IN IF etagMatches(listETag, requestETag)
            THEN [Stop(ran, "tx-ok", "") EXCEPT !.etagMatch = TRUE]
            ELSE ran

\* lines 75-79: storedInstances, e = q.GetInstancesForList(ctx, storedList.ID)
stageLoadIn(db, t, fault) ==
    IF t.done THEN t
    ELSE LET ran == [t EXCEPT !.trace = Append(@, "GetInstancesForList")]
         IN IF fault = "GetInstancesForList"
            THEN Stop(ran, "Error", "failed to get instances")
            ELSE Stop([ran EXCEPT !.rows = GetInstancesForListIn(db, t.list)],
                      "tx-ok", "")

stageLoad(t, fault) == stageLoadIn(Db, t, fault)

\* s.store.RunTx: commit when the function returns nil, roll back otherwise
RunTx(t) ==
    [status |-> t.status, error |-> t.error, list |-> t.list,
     marks |-> t.marks, committed |-> t.status = "tx-ok",
     computed |-> t.computed, etagMatch |-> t.etagMatch, rows |-> t.rows,
     trace |-> Append(t.trace, IF t.status = "tx-ok" THEN "Commit"
                               ELSE "Rollback")]

renderTx_compareFirst(token, requestETag, referer, fault) ==
    RunTx(stageLoad(stageMark(stageBan(stageCompare(
        stageResolve(TxStart, token, fault), requestETag)),
        referer, fault), fault))
renderTx_markFirst(token, requestETag, referer, fault) ==
    RunTx(stageLoad(stageCompare(stageBan(stageMark(
        stageResolve(TxStart, token, fault), referer, fault)),
        requestETag), fault))
renderTx(token, requestETag, referer, fault) ==
    RunTx(stageLoad(stageCompare(stageMark(stageBan(
        stageResolve(TxStart, token, fault)), referer, fault),
        requestETag), fault))

InstanceFragment(instance) ==
    [kind |-> "instance", Template |-> instance.Template,
     Params |-> instance.Params, TestMode |-> instance.TestMode, token |-> 0,
     domain |-> ""]

\* lines 106-110: the domain the install prompt filter is written for
servingDomain_alwaysHost(official, host) == host
servingDomain(official, host) == IF official THEN mainDomain ELSE host

\* fmt.Fprintf(c.Response(), installPromptFilterTemplate, domain, token)
PromptFragment(domain, token) ==
    [kind |-> "prompt", Template |-> 0, Params |-> "", TestMode |-> FALSE,
     token |-> token, domain |-> domain]

\* list.Render: one fragment per instance, in the list's order
Render(instances) ==
    [i \in 1..Len(instances) |-> InstanceFragment(instances[i])]

\* lines 84-87: _ = s.statsd.Incr("letsblockit.list_download", tags, 1);
\* stats is the pair of tags handed to the counter, etag_present and
\* etag_match; whether the emission fails (fault "Incr") is not looked at
countDownload(tx, fault) ==
    [stats |-> <<tx.etagPresent, tx.etagMatch>>,
     trace |-> Append(tx.trace, "Incr")] @@ tx

\* lines 88-112: the not-modified answer, or the Etag header and the body
respondAfterCount(token, tx) ==
    LET list == convertFilterList(tx.rows)
    IN
    IF tx.etagMatch
    THEN [status |-> "NotModified",
          trace |-> Append(tx.trace, "NoContent")] @@ tx
    ELSE IF ~list.ok
    THEN [status |-> "Error", error |-> "failed to convert list",
          etag |-> tx.computed,
          trace |-> tx.trace \o <<"SetEtag", "convertFilterList">>] @@ tx
    ELSE [status |-> "OK", etag |-> tx.computed,
          instances |-> list.Instances,
          body |-> Append(Render(list.Instances),
                          PromptFragment(servingDomain(tx.official, tx.host),
                                         token)),
          trace |-> tx.trace \o <<"SetEtag", "convertFilterList", "Render",
                                  "WritePrompt">>] @@ tx

\* What renderList does after the transaction (lines 84-112)
renderAfterTx_incrChecked(token, tx, fault) ==
    IF fault = "Incr"
    THEN [status |-> "Error", error |-> "failed to count the download"]
         @@ countDownload(tx, fault)
    ELSE respondAfterCount(token, countDownload(tx, fault))
renderAfterTx(token, tx, fault) ==
    respondAfterCount(token, countDownload(tx, fault))

\* func (s *Server) renderList(c echo.Context) error
renderListResult(raw, ifNoneMatch, referer, fault) ==
    LET request == [handler |-> "renderList", raw |-> raw,
                    validator |-> ifNoneMatch, referer |-> referer,
                    fault |-> fault] @@ Idle
        parsed == uuidParse(TrimSuffix(raw))
        requestETag == getEtag(ifNoneMatch)
        entered == [etagPresent |-> requestETag # NoEtag,
                    trace |-> <<"Parse">>] @@ request
    IN
    IF ~parsed.ok
    THEN parseFailure(request)
    ELSE LET tx == LET r == renderTx(parsed.token, requestETag, referer, fault)
                   IN [trace |-> entered.trace \o r.trace] @@ r @@ entered
         IN IF tx.status # "tx-ok" THEN tx
            ELSE renderAfterTx(parsed.token, tx, fault)

\* -------------------------------------------------------------- exportList
ProvenanceFragment(token) ==
    [kind |-> "provenance", Template |-> 0, Params |-> "", TestMode |-> FALSE,
     token |-> token, domain |-> ""]

\* line 129-130: case auth.GetUserId(c) != storedList.UserID
stageOwner(t, caller) ==
    IF t.done THEN t
    ELSE LET ran == [t EXCEPT !.trace = Append(@, "GetUserId")]
         IN IF caller # t.owner THEN Stop(ran, "Forbidden", "") ELSE ran

\* The transaction function of exportList (lines 122-134)
exportTx(token, caller, fault) ==
    RunTx(stageLoad(stageOwner(stageResolve(TxStart, token, fault), caller),
                    fault))

\* What exportList does after the transaction (lines 138-154)
exportAfterTx(token, tx) ==
    LET list == convertFilterList(tx.rows)
    IN IF ~list.ok
       THEN [status |-> "Error", error |-> "cannot assign",
             trace |-> tx.trace \o <<"convertFilterList">>] @@ tx
       ELSE [status |-> "OK", instances |-> list.Instances,
             body |-> <<ProvenanceFragment(token)>> \o Render(list.Instances),
             trace |-> tx.trace \o <<"convertFilterList", "SetHeaders",
                                     "WriteHeader", "WriteProvenance",
                                     "Encode">>] @@ tx

\* func (s *Server) exportList(c echo.Context) error
exportListResult(raw, caller, fault) ==
    LET request == [handler |-> "exportList", raw |-> raw, caller |-> caller,
                    fault |-> fault] @@ Idle
        parsed == uuidParse(raw)
    IN
    IF ~parsed.ok
    THEN parseFailure(request)
    ELSE LET tx == LET r == exportTx(parsed.token, caller, fault)
                   IN [trace |-> <<"Parse">> \o r.trace] @@ r @@ request
         IN IF tx.status # "tx-ok" THEN tx
            ELSE exportAfterTx(parsed.token, tx)

\* ------------------------------------------------------------------ inputs
\* "abc", every uuid, and the first uuid with the ".txt" suffix
RawParams ==
    {RawParam(id, 0) : id \in {Malformed} \cup UUIDs} \cup {RawParam(1, 1)}
AllEtags == {filterHash} \cup {filterHash \o Format(t) : t \in 0..MaxClock}
Validators == {NoEtag} \cup AllEtags
StoreFaults == {"none", "GetListForToken", "MarkListDownloaded",
                "GetInstancesForList"}
ExportFaults == {"none", "GetListForToken", "GetInstancesForList"}
Callers == {Anonymous} \cup Users

\* ----------------------------------------------------------------- actions
Init ==
    /\ filter_lists = [l \in ListIds |->
                          [user_id |-> l, token |-> l, downloaded |-> FALSE]]
    /\ filter_instances = {}
    /\ bans = {}
    /\ now = 0
    /\ issued = 2
    /\ resp = Idle

\* Statements of other requests run between two requests and between the
\* statements of a request that is run step by step, never after a response
\* is complete and before it is sent.
MayInterleave == resp = Idle \/ InFlight(resp)

\* the token a request's path parameter parses to
ParsedToken(r) ==
    IF r.handler = "renderList" THEN uuidParse(TrimSuffix(r.raw))
    ELSE uuidParse(r.raw)

\* the state of the list behind a token in tables db, as far as a download
\* shows it
ShownState(db, token) ==
    [fingerprint |-> listETagOf(GetListForTokenIn(db, token).LastUpdated),
     rows |-> GetInstancesForListIn(db, GetListForTokenIn(db, token).ID)]

\* a request in progress keeps every state its list goes through
Witnessed ==
    resp' = IF InFlight(resp)
            THEN [resp EXCEPT !.history =
                     @ \cup {ShownState(Db', ParsedToken(resp).token)}]
            ELSE resp

\* time passes
Tick ==
    /\ MayInterleave
    /\ now < MaxClock
    /\ now' = now + 1
    /\ UNCHANGED <<filter_lists, filter_instances, bans, issued, resp>>

\* INSERT INTO filter_instances ... VALUES ((SELECT id FROM filter_lists
\* WHERE user_id = $1), $1, $2, $3, $4); updated_at defaults to NOW()
CreateInstanceForUserAndFilter(UserID, FilterName, Params, TestMode) ==
    /\ MayInterleave
    /\ \E l \in ListIds : filter_lists[l].user_id = UserID
    /\ ~\E r \in filter_instances :
           r.user_id = UserID /\ r.filter_name = FilterName
    /\ LET l == CHOOSE l \in ListIds : filter_lists[l].user_id = UserID
       IN filter_instances' = filter_instances \cup
              {Row(l, UserID, FilterName, Params, TestMode, now)}
    /\ UNCHANGED <<filter_lists, bans, now, issued>>
    /\ Witnessed

\* UPDATE filter_instances SET params = $3, test_mode = $4,
\* updated_at = NOW() WHERE (user_id = $1 AND filter_name = $2)
UpdateInstanceForUserAndFilter(UserID, FilterName, Params, TestMode) ==
    /\ MayInterleave
    /\ filter_instances' =
          {IF r.user_id = UserID /\ r.filter_name = FilterName
           THEN [r EXCEPT !.params = Params, !.test_mode = TestMode,
                          !.updated_at = now]
           ELSE r : r \in filter_instances}
    /\ UNCHANGED <<filter_lists, bans, now, issued>>
    /\ Witnessed

\* DELETE FROM filter_instances WHERE (user_id = $1 AND filter_name = $2)
DeleteInstanceForUserAndFilter(UserID, FilterName) ==
    /\ MayInterleave
    /\ filter_instances' =
          {r \in filter_instances :
              ~(r.user_id = UserID /\ r.filter_name = FilterName)}
    /\ UNCHANGED <<filter_lists, bans, now, issued>>
    /\ Witnessed

\* the ban registry changes (ban-list administration)
BanUser(u) ==
    /\ resp = Idle
    /\ u \notin bans
    /\ bans' = bans \cup {u}
    /\ UNCHANGED <<filter_lists, filter_instances, now, issued, resp>>

UnbanUser(u) ==
    /\ resp = Idle
    /\ u \in bans
    /\ bans' = bans \ {u}
    /\ UNCHANGED <<filter_lists, filter_instances, now, issued, resp>>

\* the owner re-keys the list: a fresh token replaces the old one
RotateListToken_backToFirst(UserID) ==
    /\ resp = Idle
    /\ issued < MaxToken
    /\ issued' = issued + 1
    /\ filter_lists' = [l \in ListIds |->
          IF filter_lists[l].user_id = UserID
          THEN [filter_lists[l] EXCEPT
                   !.token = IF @ = l THEN issued + 1 ELSE l]
          ELSE filter_lists[l]]
    /\ UNCHANGED <<filter_instances, bans, now, resp>>
RotateListToken(UserID) ==
    /\ resp = Idle
    /\ issued < MaxToken
    /\ issued' = issued + 1
    /\ filter_lists' = [l \in ListIds |->
          IF filter_lists[l].user_id = UserID
          THEN [filter_lists[l] EXCEPT !.token = issued + 1]
          ELSE filter_lists[l]]
    /\ UNCHANGED <<filter_instances, bans, now, resp>>

\* the store after a request: the writes of a committed transaction
Commit(r) ==
    IF r.committed /\ r.marks > 0
    THEN MarkListDownloaded(uuidParse(TrimSuffix(r.raw)).token)
    ELSE filter_lists

renderList(raw, ifNoneMatch, referer, fault) ==
    /\ resp = Idle
    /\ resp' = renderListResult(raw, ifNoneMatch, referer, fault)
    /\ filter_lists' = Commit(resp')
    /\ UNCHANGED <<filter_instances, bans, now, issued>>

\* the client repeats its download with the Etag it has just received
Revalidate(referer) ==
    /\ resp.handler = "renderList"
    /\ resp.status = "OK"
    /\ ~resp.revalidation
    /\ resp' = [revalidation |-> TRUE] @@
               renderListResult(resp.raw, resp.etag, referer, "none")
    /\ filter_lists' = Commit(resp')
    /\ UNCHANGED <<filter_instances, bans, now, issued>>

exportList(raw, caller, fault) ==
    /\ resp = Idle
    /\ resp' = exportListResult(raw, caller, fault)
    /\ UNCHANGED <<filter_lists, filter_instances, bans, now, issued>>

\* the response has been sent
Finish ==
    /\ resp # Idle
    /\ ~InFlight(resp)
    /\ resp' = Idle
    /\ UNCHANGED <<filter_lists, filter_instances, bans, now, issued>>

\* ------------------------------------------------- handlers step by step
\* whether a trace holds a step, and where it holds it first
Has(trace, step) == \E i \in 1..Len(trace) : trace[i] = step
Pos(trace, step) ==
    IF Has(trace, step)
    THEN CHOOSE i \in 1..Len(trace) :
             trace[i] = step /\ \A j \in 1..(i - 1) : trace[j] # step
    ELSE 0

\* A handler's store statements and its writes to the response are the
\* points where statements of other requests can run.  The same stages as
\* renderTx and exportTx, one action per statement, each reading the tables
\* the transaction lets it read; then one action per fragment written.

\* s.store.RunTx: every statement of the function reads the tables as they
\* were when the transaction began
TxReads_readCommitted(snapshot) == Db
TxReads(snapshot) == snapshot

\* line 75: the instances are read through q, the transaction's querier
loadReads_outsideTx(snapshot) == Db
loadReads(snapshot) == TxReads(snapshot)

\* a request whose transaction has begun
Begun(request, token) ==
    [phase |-> "resolve", trace |-> <<"Parse">>, tx |-> TxStart,
     snapshot |-> Db, history |-> {ShownState(Db, token)}] @@ request

\* lines 35-48: parse the token, read the validator, begin the transaction
beginRenderList(raw, ifNoneMatch, referer, host, official) ==
    /\ resp = Idle
    /\ LET request == [handler |-> "renderList", raw |-> raw,
                       validator |-> ifNoneMatch, referer |-> referer,
                       host |-> host, official |-> official] @@ Idle
           parsed == uuidParse(TrimSuffix(raw))
       IN resp' = IF ~parsed.ok THEN parseFailure(request)
                  ELSE [etagPresent |-> getEtag(ifNoneMatch) # NoEtag]
                       @@ Begun(request, parsed.token)
    /\ UNCHANGED <<filter_lists, filter_instances, bans, now, issued>>

\* lines 116-122: parse the token, begin the transaction
beginExportList(raw, caller) ==
    /\ resp = Idle
    /\ LET request == [handler |-> "exportList", raw |-> raw,
                       caller |-> caller] @@ Idle
           parsed == uuidParse(raw)
       IN resp' = IF ~parsed.ok THEN parseFailure(request)
                  ELSE Begun(request, parsed.token)
    /\ UNCHANGED <<filter_lists, filter_instances, bans, now, issued>>

\* lines 50-58 and 123-131: GetListForToken, then the ban check of renderList
\* or the owner check of exportList
stepResolve ==
    /\ resp.phase = "resolve"
    /\ LET t == stageResolveIn(TxReads(resp.snapshot), resp.tx,
                               ParsedToken(resp).token, "none")
       IN resp' = IF resp.handler = "renderList"
                  THEN [resp EXCEPT !.tx = stageBan(t), !.phase = "mark"]
                  ELSE [resp EXCEPT !.tx = stageOwner(t, resp.caller),
                                    !.phase = "load"]
    /\ UNCHANGED <<filter_lists, filter_instances, bans, now, issued>>

\* lines 60-73: MarkListDownloaded, then the fingerprint and its comparison
stepMark ==
    /\ resp.phase = "mark"
    /\ resp' = [resp EXCEPT
                   !.tx = stageCompare(stageMark(@, resp.referer, "none"),
                                       getEtag(resp.validator)),
                   !.phase = "load"]
    /\ UNCHANGED <<filter_lists, filter_instances, bans, now, issued>>

\* lines 75-79 and 132-133: GetInstancesForList
stepLoad ==
    /\ resp.phase = "load"
    /\ resp' = [resp EXCEPT
                   !.tx = stageLoadIn(loadReads(resp.snapshot), @, "none"),
                   !.phase = "commit"]
    /\ UNCHANGED <<filter_lists, filter_instances, bans, now, issued>>

\* the request once RunTx has returned: the statements run and what they
\* read, as the handler's variables hold them
Returned(r) ==
    LET tx == RunTx(r.tx)
    IN [trace |-> r.trace \o tx.trace] @@ tx @@ r

\* the function has returned: RunTx commits or rolls back, and the handler
\* returns the function's error if it has one (lines 80-82, 134-136)
stepCommit ==
    /\ resp.phase = "commit"
    /\ resp' = [Returned(resp) EXCEPT
                   !.phase = IF Returned(resp).status = "tx-ok" THEN "respond"
                             ELSE "none"]
    /\ filter_lists' = Commit(resp')
    /\ UNCHANGED <<filter_instances, bans, now, issued>>

\* the steps of a handler that write the body
WriteSteps == {"Render", "WritePrompt", "WriteProvenance", "Encode"}
WriteStep(fragment) ==
    IF fragment.kind = "prompt" THEN "WritePrompt"
    ELSE IF fragment.kind = "provenance" THEN "WriteProvenance"
    ELSE IF resp.handler = "renderList" THEN "Render" ELSE "Encode"

\* what the handler does with the transaction's result up to its first
\* write to the body; the fragments to write are pending
Responding(r) ==
    LET token == ParsedToken(r).token
        after == IF r.handler = "renderList"
                 THEN renderAfterTx(token, r, "none")
                 ELSE exportAfterTx(token, r)
    IN IF after.status = "OK"
       THEN [after EXCEPT !.phase = "stream", !.pending = after.body,
                          !.body = << >>,
                          !.trace = SelectSeq(@, LAMBDA x : x \notin WriteSteps)]
       ELSE [after EXCEPT !.phase = "none"]

\* lines 84-100 and 138-145: the handler goes on after RunTx has returned
stepRespond_insideTx ==
    /\ resp.phase = "commit"
    /\ resp.tx.status = "tx-ok"
    /\ resp' = Responding([rows |-> resp.tx.rows, computed |-> resp.tx.computed,
                           etagMatch |-> resp.tx.etagMatch,
                           list |-> resp.tx.list] @@ resp)
    /\ UNCHANGED <<filter_lists, filter_instances, bans, now, issued>>
stepRespond ==
    /\ resp.phase = "respond"
    /\ resp' = Responding(resp)
    /\ UNCHANGED <<filter_lists, filter_instances, bans, now, issued>>

\* one fragment goes out (lines 102-110, 146-150)
stepWrite ==
    /\ resp.phase = "stream"
    /\ resp' = [resp EXCEPT
                   !.body = Append(@, Head(resp.pending)),
                   !.pending = Tail(@),
                   !.trace = IF Has(@, WriteStep(Head(resp.pending))) THEN @
                             ELSE Append(@, WriteStep(Head(resp.pending))),
                   !.phase = IF Len(resp.pending) = 1 THEN "none" ELSE "stream"]
    /\ UNCHANGED <<filter_lists, filter_instances, bans, now, issued>>

\* What a handler returns when a write to the response fails: renderList
\* returns the error (lines 102-104, 112), exportList returns nil (lines
\* 147-149, 151-153)
writeFailure_reported(r) ==
    [r EXCEPT !.status = "Error", !.error = "write failed"]
writeFailure(r) ==
    IF r.handler = "renderList"
    THEN [r EXCEPT !.status = "Error", !.error = "failed to render list"]
    ELSE r

\* the client goes away or the connection breaks: the next write fails
stepWriteFails ==
    /\ resp.phase = "stream"
    /\ resp' = [writeFailure(resp) EXCEPT
                   !.trace = Append(@, "WriteFailed"),
                   !.pending = << >>, !.phase = "none"]
    /\ UNCHANGED <<filter_lists, filter_instances, bans, now, issued>>

\* ------------------------------------------------------------ ParseFilter
\* A definition source is a sequence of lines: "title" sets a field of the
\* metadata, "mistyped" is a metadata line whose value does not fit its
\* field, "separator" is the yamlSeparator line, "text" is a line of the
\* description.
Lines == {"title", "mistyped", "separator", "text"}

RECURSIVE SourcesOfLength(_)
SourcesOfLength(n) ==
    IF n = 0 THEN {<< >>}
    ELSE {Append(src, line) : src \in SourcesOfLength(n - 1), line \in Lines}

Sources == UNION {SourcesOfLength(n) : n \in 0..MaxInput}

\* bytes.Index(input, yamlSeparator): the first separator line, 0 for none
SeparatorIndex(input) ==
    IF \E i \in 1..Len(input) : input[i] = "separator"
    THEN CHOOSE i \in 1..Len(input) :
             input[i] = "separator"
             /\ \A j \in 1..(i - 1) : input[j] # "separator"
    ELSE 0

\* yaml.Unmarshal(input, filter): decodes the first document of the input,
\* the lines before the separator; it sets every field it can and fails
\* when a value does not fit its field
yamlUnmarshal(input, filter) ==
    LET pos == SeparatorIndex(input)
        document == IF pos = 0 THEN input ELSE SubSeq(input, 1, pos - 1)
        has(line) == \E i \in 1..Len(document) : document[i] = line
    IN [filter |-> IF has("title") THEN [filter EXCEPT !.Title = "title"]
                   ELSE filter,
        err |-> IF has("mistyped") THEN "cannot unmarshal" ELSE ""]

\* validate.Struct(filter): the definition's required fields are present
validateStruct(filter) ==
    IF filter.Title = "" THEN "validation failed" ELSE ""

\* func parse(reader io.Reader, filter filter) error; filter is a pointer,
\* what parse has written to it is there whatever parse returns
parse(input, filter) ==
    LET decoded == yamlUnmarshal(input, filter)
        pos == SeparatorIndex(input)
        described == [decoded.filter EXCEPT
                         !.Description = SubSeq(input, pos + 1, Len(input))]
    IN IF decoded.err # "" THEN decoded
       ELSE IF pos = 0
       THEN [filter |-> decoded.filter, err |-> "separator not found"]
       ELSE [filter |-> described, err |-> validateStruct(described)]

\* the nil *Filter
NoFilter == [nil |-> TRUE, Name |-> 0, Title |-> "", Description |-> << >>]

\* func ParseFilter(name string, reader io.Reader) (*Filter, error):
\* return filter, parse(reader, filter)
ParseFilter(name, input) ==
    parse(input, [nil |-> FALSE, Name |-> name, Title |-> "",
                  Description |-> << >>])

\* the corpus loader reads one definition source
LoadDefinition(name, input) ==
    /\ resp = Idle
    /\ resp' = [handler |-> "ParseFilter", name |-> name, input |-> input,
                filter |-> ParseFilter(name, input).filter,
                err |-> ParseFilter(name, input).err] @@ Idle
    /\ UNCHANGED <<filter_lists, filter_instances, bans, now, issued>>

\* -------------------------------------------------------- specifications
\* Access: who may download or export a list.  Each list's first instance
\* comes and goes, users
\* are banned and unbanned, tokens are rotated, store statements may fail;
\* the clock stands still.
CreateFirst ==
    \E u \in Users : CreateInstanceForUserAndFilter(u, 1, "{}", FALSE)
DeleteFirst == \E u \in Users : DeleteInstanceForUserAndFilter(u, 1)
Ban == \E u \in Users : BanUser(u)
Unban == \E u \in Users : UnbanUser(u)
Rotate == \E u \in Users : RotateListToken(u)
Download ==
    \E raw \in RawParams, v \in Validators, referer \in BOOLEAN,
       fault \in StoreFaults : renderList(raw, v, referer, fault)
Export ==
    \E raw \in RawParams, caller \in Callers, fault \in ExportFaults :
        exportList(raw, caller, fault)

NextAccess ==
    \/ CreateFirst
    \/ DeleteFirst
    \/ Ban
    \/ Unban
    \/ Rotate
    \/ Download
    \/ Export
    \/ Finish

SpecAccess == Init /\ [][NextAccess]_vars

\* Cache: the fingerprint over time.  The clock advances, instances of both
\* lists are created, updated and deleted, and clients download with any
\* validator or repeat a download with the Etag they received.
Create ==
    \E u \in Users, f \in 1..MaxMutable :
        CreateInstanceForUserAndFilter(u, f, "{}", FALSE)
Delete ==
    \E u \in Users, f \in 1..MaxMutable : DeleteInstanceForUserAndFilter(u, f)
Update ==
    \E u \in Users, f \in 1..MaxMutable :
        UpdateInstanceForUserAndFilter(u, f, "{}", FALSE)
Fetch ==
    \E l \in ListIds, n \in 0..1, v \in Validators, referer \in BOOLEAN,
       fault \in {"none", "Incr"} :
        renderList(RawParam(filter_lists[l].token, n), v, referer, fault)
Refetch == \E referer \in BOOLEAN : Revalidate(referer)

NextCache ==
    \/ Tick
    \/ Create
    \/ Update
    \/ Delete
    \/ Fetch
    \/ Refetch
    \/ Finish

SpecCache == Init /\ [][NextCache]_vars

\* Aggregate: what is rendered and exported for a stored instance set.
\* List 1 holds any set of instances with distinct filter names, payloads
\* that decode or not, test mode on or off; list 2 holds one instance.
StoredInstanceSets ==
    {rows \in SUBSET {Row(1, 1, f, p, tm, 0) :
                         f \in FilterNames, p \in Payloads, tm \in BOOLEAN} :
        \A r1, r2 \in rows : r1.filter_name = r2.filter_name => r1 = r2}

InitAggregate ==
    /\ filter_lists = [l \in ListIds |->
                          [user_id |-> l, token |-> l, downloaded |-> FALSE]]
    /\ \E rows \in StoredInstanceSets :
          filter_instances = rows \cup {Row(2, 2, 1, "{}", TRUE, 0)}
    /\ bans = {}
    /\ now = 0
    /\ issued = 2
    /\ resp = Idle

Preview ==
    \E referer \in BOOLEAN :
        renderList(RawParam(filter_lists[1].token, 0), NoEtag, referer, "none")
ExportOwn ==
    \E caller \in Users :
        exportList(RawParam(filter_lists[1].token, 0), caller, "none")

NextAggregate ==
    \/ Preview
    \/ ExportOwn
    \/ Finish

SpecAggregate == InitAggregate /\ [][NextAggregate]_vars

\* Concurrent: a download or an export of list 1 run step by step while its
\* owner creates, edits and deletes the list's first instance and the clock
\* advances.
Add == \E tm \in BOOLEAN : CreateInstanceForUserAndFilter(1, 1, "{}", tm)
Edit == \E tm \in BOOLEAN : UpdateInstanceForUserAndFilter(1, 1, "{}", tm)
Remove == DeleteInstanceForUserAndFilter(1, 1)
BeginDownload ==
    \E v \in {NoEtag, filterHash \o Format(0)}, referer \in BOOLEAN,
       host \in Hosts, official \in BOOLEAN :
        beginRenderList(RawParam(filter_lists[1].token, 0), v, referer, host,
                        official)

BeginExport ==
    \E caller \in Users :
        beginExportList(RawParam(filter_lists[1].token, 0), caller)

NextConcurrent ==
    \/ Tick
    \/ Add
    \/ Edit
    \/ Remove
    \/ BeginDownload
    \/ BeginExport
    \/ stepResolve
    \/ stepMark
    \/ stepLoad
    \/ stepCommit
    \/ stepRespond
    \/ stepWrite
    \/ stepWriteFails
    \/ Finish

SpecConcurrent == Init /\ [][NextConcurrent]_vars

\* Rotation: owners replace their tokens while clients download and export
\* with every token ever issued.
DownloadAny ==
    \E raw \in RawParams, referer \in BOOLEAN :
        renderList(raw, NoEtag, referer, "none")
ExportAny ==
    \E raw \in RawParams, caller \in Callers : exportList(raw, caller, "none")

NextRotation ==
    \/ Rotate
    \/ DownloadAny
    \/ ExportAny
    \/ Finish

SpecRotation == Init /\ [][NextRotation]_vars

\* Loader: definition sources of every shape are parsed.
Load == \E name \in FilterNames, input \in Sources : LoadDefinition(name, input)

NextLoader ==
    \/ Load
    \/ Finish

SpecLoader == Init /\ [][NextLoader]_vars

\* ------------------------------------------------------------ properties
\* the list the request's token resolves to in the store, if any
Resolved(r) == GetListForToken(ParsedToken(r).token)
Resolves(r) == ParsedToken(r).ok /\ Resolved(r).found

\* C1: a renderList request whose token resolves to the list of a banned
\* user is answered Forbidden whatever validator it carries; it gets neither
\* a not-modified answer nor an Etag nor a body.
C1_BannedIsForbidden ==
    (/\ resp.handler = "renderList"
     /\ resp.fault # "GetListForToken"
     /\ Resolves(resp)
     /\ IsBanned(Resolved(resp).UserID))
    => (/\ resp.status = "Forbidden"
        /\ resp.etag = NoEtag
        /\ resp.body = << >>)

\* C1 witness: a banned owner's list requested with a validator equal to
\* the list's current fingerprint, and refused.
C1_Witness ==
    /\ resp.handler = "renderList"
    /\ Resolves(resp)
    /\ IsBanned(Resolved(resp).UserID)
    /\ resp.validator = listETagOf(Resolved(resp).LastUpdated)
    /\ resp.status = "Forbidden"

\* C2: in a renderList request the fingerprint is compared only after the
\* token was resolved and the ban check passed, and instances are loaded
\* only after the comparison was made and found no match.
C2_StepOrder ==
    resp.handler = "renderList" =>
        LET tr == resp.trace IN
        /\ Has(tr, "CompareEtag") =>
              /\ 0 < Pos(tr, "GetListForToken")
              /\ Pos(tr, "GetListForToken") < Pos(tr, "IsBanned")
              /\ Pos(tr, "IsBanned") < Pos(tr, "CompareEtag")
              /\ resp.list \in ListIds
              /\ ~IsBanned(filter_lists[resp.list].user_id)
        /\ Has(tr, "GetInstancesForList") =>
              /\ 0 < Pos(tr, "CompareEtag")
              /\ Pos(tr, "CompareEtag") < Pos(tr, "GetInstancesForList")
              /\ ~resp.etagMatch
              /\ resp.computed # resp.validator

\* C2 witness: a request with a validator that did not match went through
\* all three steps.
C2_Witness ==
    /\ resp.handler = "renderList"
    /\ resp.validator # NoEtag
    /\ Has(resp.trace, "IsBanned")
    /\ Has(resp.trace, "CompareEtag")
    /\ Has(resp.trace, "GetInstancesForList")
    /\ resp.status = "OK"

\* C3: when a download is repeated with the Etag the first answer carried
\* and nothing changed in between but the first download's own marking, the
\* second answer is not-modified and the fingerprint it computed is equal
\* to that Etag.
C3_RevalidationNotModified ==
    [][resp'.revalidation =>
          (/\ resp'.validator = resp.etag
           /\ resp'.status = "NotModified"
           /\ resp'.computed = resp.etag)]_vars

\* C3 witness: a repeated download of a list that has a timestamp and that
\* the first download marked, answered not-modified.
C3_Witness ==
    /\ resp.revalidation
    /\ resp.status = "NotModified"
    /\ Len(resp.computed) > Len(filterHash)
    /\ resp.list \in ListIds
    /\ filter_lists[resp.list].downloaded

RowsOf(l) == {r \in filter_instances : r.filter_list_id = l}

\* the fingerprint renderList computes for a download of list l
FingerprintOf(l) ==
    listETagOf(GetListForToken(filter_lists[l].token).LastUpdated)

\* C4: every change of the instances of a list changes the fingerprint
\* renderList computes for that list, and leaves the fingerprint of every
\* other list as it was.
C4_MutationChangesFingerprint ==
    [][\A l \in ListIds :
          IF RowsOf(l)' # RowsOf(l)
          THEN FingerprintOf(l)' # FingerprintOf(l)
          ELSE FingerprintOf(l)' = FingerprintOf(l)]_vars

\* the names in S in ascending order
Ascending(S) ==
    CHOOSE seq \in [1..Cardinality(S) -> S] :
        \A i, j \in 1..Cardinality(S) : i < j => seq[i] < seq[j]

\* the order prescribed for list l: the templated instances by
\* ascending filter name, then the custom rules
PrescribedOrder(l) ==
    LET names == {r.filter_name : r \in RowsOf(l)}
    IN Ascending(names \ {CustomRulesFilterName})
       \o Ascending(names \cap {CustomRulesFilterName})

TemplatesOf(instances) ==
    [i \in 1..Len(instances) |-> instances[i].Template]

\* C5: the instance sequence renderList and exportList hand to their
\* renderer holds the list's templated instances by ascending filter name,
\* then its custom rules instance, one entry per stored instance, and is
\* the same on both paths.
C5_RenderOrder ==
    resp.status = "OK" =>
        /\ TemplatesOf(resp.instances) = PrescribedOrder(resp.list)
        /\ Len(resp.instances) = Cardinality(RowsOf(resp.list))

\* C5 witness: a list with a templated instance on each side of the custom
\* rules in name order, exported with the custom rules last.
C5_Witness ==
    /\ resp.handler = "exportList"
    /\ resp.status = "OK"
    /\ Len(resp.instances) = 3
    /\ resp.instances[3].Template = CustomRulesFilterName
    /\ resp.instances[1].Template < CustomRulesFilterName
    /\ resp.instances[2].Template > CustomRulesFilterName

\* the path parameter is the text of a uuid (renderList also takes it with
\* one ".txt" after it)
WellFormed(r) ==
    /\ r.raw.id \in UUIDs
    /\ r.raw.suffixes <= (IF r.handler = "renderList" THEN 1 ELSE 0)

\* nothing was written to the store or to the response, no instance read
NoEffects(r) ==
    /\ r.marks = 0
    /\ ~r.committed
    /\ ~Has(r.trace, "MarkListDownloaded")
    /\ ~Has(r.trace, "GetInstancesForList")
    /\ r.rows = << >>
    /\ r.etag = NoEtag
    /\ r.body = << >>

\* C6: a renderList or exportList request whose token parameter is not a
\* valid identifier is answered NotFound and runs no store operation: no
\* transaction, no lookup, no marking, no instance read.
C6_MalformedTokenNoStore ==
    [][(resp'.handler # "none" /\ ~WellFormed(resp')) =>
          (/\ resp'.status = "NotFound"
           /\ resp'.trace = <<"Parse">>
           /\ NoEffects(resp')
           /\ UNCHANGED <<filter_lists, filter_instances>>)]_vars

\* C6 witness: the token "abc" was requested and answered NotFound.
C6_Witness ==
    /\ resp.handler = "renderList"
    /\ resp.raw.id = Malformed
    /\ resp.status = "NotFound"

\* what the caller of a request can observe of its outcome
Observable(r) == [status |-> r.status, etag |-> r.etag, body |-> r.body]

\* C7: a renderList request whose token does not resolve to a list is
\* answered NotFound, and status, headers, body and store writes are the
\* same whether the token is malformed, was never issued or was rotated
\* away.
C7_NotFoundUniform ==
    [][(/\ resp'.handler = "renderList"
        /\ resp'.fault # "GetListForToken"
        /\ ~Resolves(resp')) =>
          (/\ Observable(resp') =
                 [status |-> "NotFound", etag |-> NoEtag, body |-> << >>]
           /\ UNCHANGED <<filter_lists, filter_instances>>)]_vars

\* C7 witness: the first token of list 1, rotated away, was requested and
\* answered NotFound.
C7_Witness ==
    /\ resp.handler = "renderList"
    /\ resp.raw.id = 1
    /\ filter_lists[1].token # 1
    /\ resp.status = "NotFound"

\* C8: a renderList request that finds its token unresolved or the owner
\* banned, and an exportList request of a caller who is not the owner
\* (answered Forbidden), mark nothing, read no instance and write neither
\* header nor body.
C8_AuthorizationFirst ==
    [][/\ (/\ resp'.handler = "renderList"
           /\ resp'.fault # "GetListForToken"
           /\ (~Resolves(resp') \/ IsBanned(Resolved(resp').UserID)))
          => (NoEffects(resp') /\ UNCHANGED <<filter_lists, filter_instances>>)
       /\ (/\ resp'.handler = "exportList"
           /\ resp'.fault # "GetListForToken"
           /\ Resolves(resp')
           /\ resp'.caller # Resolved(resp').UserID)
          => (/\ resp'.status = "Forbidden"
              /\ NoEffects(resp')
              /\ UNCHANGED <<filter_lists, filter_instances>>)]_vars

\* C8 witness: a signed-in user asked for the export of another user's
\* list and was refused.
C8_Witness ==
    /\ resp.handler = "exportList"
    /\ Resolves(resp)
    /\ resp.caller \in Users
    /\ resp.caller # Resolved(resp).UserID
    /\ RowsOf(resp.list) # {}
    /\ resp.status = "Forbidden"

\* C9: a renderList request that passed the token and ban checks marks its
\* list downloaded exactly once when it has no Referer and its transaction
\* commits, leaves the store as it was when the transaction fails after the
\* marking, and never marks when it has a Referer.
C9_MarkedOncePerCommit ==
    [][(/\ resp'.handler = "renderList"
        /\ resp'.fault # "GetListForToken"
        /\ Resolves(resp')
        /\ ~IsBanned(Resolved(resp').UserID)) =>
          IF resp'.referer
          THEN resp'.marks = 0 /\ filter_lists' = filter_lists
          ELSE IF resp'.committed
          THEN /\ resp'.marks = 1
               /\ filter_lists' =
                     [filter_lists EXCEPT ![resp'.list].downloaded = TRUE]
          ELSE filter_lists' = filter_lists]_vars

\* C9 witness: the marking ran, the instance load failed, and the list is
\* not marked.
C9_Witness ==
    /\ resp.handler = "renderList"
    /\ ~resp.referer
    /\ resp.fault = "GetInstancesForList"
    /\ resp.marks = 1
    /\ ~resp.committed
    /\ ~filter_lists[resp.list].downloaded

\* C10: renderList answers not-modified only to a request whose validator
\* is present and equal to the computed fingerprint; a request without a
\* validator loads the instances and gets the body with the fingerprint as
\* Etag, whatever the list holds.
C10_NotModifiedOnlyOnMatch ==
    resp.handler = "renderList" =>
        /\ resp.status = "NotModified" =>
              (resp.validator # NoEtag /\ resp.validator = resp.computed)
        /\ (resp.validator = NoEtag /\ Resolves(resp)) =>
              (/\ resp.status = "OK"
               /\ Has(resp.trace, "GetInstancesForList")
               /\ resp.rows = GetInstancesForList(resp.list)
               /\ resp.etag = FingerprintOf(resp.list)
               /\ Len(resp.body) = Len(resp.rows) + 1)

\* C10 witness: a list without instances, hence without timestamp, was
\* downloaded without validator and came with the template hash as Etag.
C10_Witness ==
    /\ resp.handler = "renderList"
    /\ resp.validator = NoEtag
    /\ resp.status = "OK"
    /\ RowsOf(resp.list) = {}
    /\ resp.etag = filterHash

\* C11: a download that runs while instances of its list are created, edited
\* and deleted answers from one state of the list: the list has been, at
\* some moment since the transaction began, in a state whose fingerprint is
\* the response's Etag and whose instances, in order, are the ones the body
\* is rendered from.
C11_SingleCommittedState ==
    (/\ resp.handler = "renderList"
     /\ resp.status = "OK"
     /\ resp.history # {})
    => \E shown \in resp.history :
             /\ resp.etag = shown.fingerprint
             /\ resp.rows = shown.rows
             /\ resp.instances = convertFilterList(shown.rows).Instances
             /\ resp.body \o resp.pending =
                    Append(Render(resp.instances),
                           PromptFragment(
                               servingDomain(resp.official, resp.host),
                               ParsedToken(resp).token))

\* C11 witness: a complete download during whose transaction the list's
\* fingerprint and instances both changed.
C11_Witness ==
    /\ resp.handler = "renderList"
    /\ resp.status = "OK"
    /\ resp.phase = "none"
    /\ resp.rows # << >>
    /\ \E shown \in resp.history :
             /\ shown.fingerprint # resp.etag
             /\ shown.rows # resp.rows
             /\ shown.rows # << >>
\* the transaction of a request has begun and has not ended
TxOpen(r) ==
    /\ r.handler # "none"
    /\ Has(r.trace \o r.tx.trace, "Begin")
    /\ ~Has(r.trace, "Commit")
    /\ ~Has(r.trace, "Rollback")

\* the body a handler writes for the rows its transaction read
BodyFor(r) ==
    IF r.handler = "renderList"
    THEN Append(Render(convertFilterList(r.rows).Instances),
                PromptFragment(servingDomain(r.official, r.host),
                               ParsedToken(r).token))
    ELSE <<ProvenanceFragment(ParsedToken(r).token)>>
         \o Render(convertFilterList(r.rows).Instances)

IsPrefix(a, b) == Len(a) <= Len(b) /\ a = SubSeq(b, 1, Len(a))

\* C12: in renderList and exportList the transaction has committed or rolled
\* back before anything of the body is written: no transaction is open while
\* the body streams or after a write has failed, every body-writing step
\* comes after the commit, and what is written is the body for the rows the
\* transaction read, whatever is committed to the list meanwhile.
C12_NoTxWhileStreaming ==
    /\ (resp.body # << >> \/ resp.phase = "stream"
            \/ Has(resp.trace, "WriteFailed"))
       => (/\ ~TxOpen(resp)
           /\ Has(resp.trace, "Commit")
           /\ IsPrefix(resp.body, BodyFor(resp))
           /\ resp.phase = "stream" => resp.body \o resp.pending = BodyFor(resp))
    /\ \A w \in WriteSteps :
          Has(resp.trace, w) => /\ Has(resp.trace, "Commit")
                                /\ Pos(resp.trace, "Commit") < Pos(resp.trace, w)

\* C12 witness: part of a body is out, more is to come, and the list's
\* instances in the store are no longer the ones being written.
C12_Witness ==
    /\ resp.phase = "stream"
    /\ resp.body # << >>
    /\ resp.pending # << >>
    /\ resp.rows # << >>
    /\ GetInstancesForList(resp.list) # resp.rows
    /\ GetInstancesForList(resp.list) # << >>
\* a token that was issued and is no list's token any more
Retired(token) ==
    /\ token \in 1..issued
    /\ \A l \in ListIds : filter_lists[l].token # token

\* C13: a token that has been rotated away resolves to no list in any later
\* state, every download or export that presents it is answered NotFound
\* with no body, and no token is the token of two lists.
C13_RetiredTokenNeverResolves ==
    /\ [](/\ \A token \in UUIDs :
                Retired(token) => ~GetListForToken(token).found
          /\ (resp.handler # "none" /\ ParsedToken(resp).ok
                 /\ Retired(ParsedToken(resp).token))
             => (resp.status = "NotFound" /\ resp.body = << >>)
          /\ \A l1, l2 \in ListIds :
                filter_lists[l1].token = filter_lists[l2].token => l1 = l2)
    /\ [][\A token \in UUIDs : Retired(token) => Retired(token)']_vars

\* C13 witness: after two rotations, a download with the first token of a
\* list that has been rotated is answered NotFound.
C13_Witness ==
    /\ resp.handler = "renderList"
    /\ ParsedToken(resp).ok
    /\ Retired(ParsedToken(resp).token)
    /\ ParsedToken(resp).token \in ListIds
    /\ issued >= Cardinality(ListIds) + 2
    /\ resp.status = "NotFound"
\* a payload that is a JSON object, the only kind that decodes into the
\* parameter map of an instance
IsObject(params) == params = "{}"

\* C14: when the payload of any stored instance of the list does not
\* decode, a download or export that got as far as converting the list ends
\* with an error, with no instance converted and no part of the body
\* written; otherwise it succeeds with exactly one entry per stored
\* instance, carrying that instance's test mode.
C14_ConversionAllOrNothing ==
    (/\ resp.handler # "none"
     /\ resp.committed
     /\ ~resp.etagMatch)
    => IF \E r \in RowsOf(resp.list) : ~IsObject(r.params)
       THEN /\ resp.status = "Error"
            /\ resp.error = IF resp.handler = "renderList"
                            THEN "failed to convert list" ELSE "cannot assign"
            /\ resp.instances = << >>
            /\ resp.body = << >>
       ELSE /\ resp.status = "OK"
            /\ Len(resp.instances) = Cardinality(RowsOf(resp.list))
            /\ \A r \in RowsOf(resp.list) :
                  \E i \in 1..Len(resp.instances) :
                     /\ resp.instances[i].Template = r.filter_name
                     /\ resp.instances[i].TestMode = r.test_mode
                     /\ \A j \in 1..Len(resp.instances) :
                           resp.instances[j].Template = r.filter_name => j = i

\* C14 witness: an export of a list of three instances, the second of which
\* has a payload that does not decode, ends with the conversion error.
C14_Witness ==
    /\ resp.handler = "exportList"
    /\ resp.committed
    /\ Len(resp.rows) = MaxFilter
    /\ IsObject(resp.rows[1].Params)
    /\ ~IsObject(resp.rows[2].Params)
    /\ resp.status = "Error"
    /\ resp.body = << >>
\* C15: when ParseFilter fails (no separator, metadata that does not decode,
\* validation that fails) it returns no definition object, not even a
\* partially populated one.
C15_NoDefinitionOnFailure ==
    (resp.handler = "ParseFilter" /\ resp.err # "") => resp.filter = NoFilter
\* C16: a download whose counter emission fails is answered exactly as the
\* same download would be with the emission succeeding (status, Etag, body,
\* marking of the list), and whenever the counter is emitted its tags say
\* whether the request carried a validator and whether that validator is
\* the list's fingerprint.
C16_CounterNeverFailsRequest ==
    /\ (resp.handler = "renderList" /\ resp.fault = "Incr")
       => LET quiet == renderListResult(resp.raw, resp.validator,
                                        resp.referer, "none")
          IN /\ Observable(resp) = Observable(quiet)
             /\ resp.error = quiet.error
             /\ resp.marks = quiet.marks
             /\ resp.committed = quiet.committed
    /\ (resp.handler = "renderList" /\ Has(resp.trace, "Incr"))
       => resp.stats = <<resp.validator # NoEtag,
                         resp.validator = FingerprintOf(resp.list)>>

\* C16 witness: the emission fails in a download that carries the list's
\* fingerprint; the download is answered not-modified and both tags are set.
C16_Witness ==
    /\ resp.handler = "renderList"
    /\ resp.fault = "Incr"
    /\ resp.validator = FingerprintOf(resp.list)
    /\ resp.status = "NotModified"
    /\ resp.stats = <<TRUE, TRUE>>
\* where the body of a response holds the install prompt fragment
PromptsIn(body) == {i \in 1..Len(body) : body[i].kind = "prompt"}

\* C17: the body of a download never holds more than one install prompt
\* fragment; where it holds one, that fragment is the last thing written,
\* every instance fragment is before it, and it names the request's token
\* and the main domain on the official instance, the request's host
\* elsewhere; a complete body holds one; a not-modified answer and a
\* download whose writing failed hold none.
C17_PromptOnceAtTheEnd ==
    resp.handler = "renderList" =>
       /\ Cardinality(PromptsIn(resp.body)) <= 1
       /\ \A i \in PromptsIn(resp.body) :
             /\ i = Len(resp.body)
             /\ SubSeq(resp.body, 1, i - 1) = Render(resp.instances)
             /\ resp.body[i].token = ParsedToken(resp).token
             /\ resp.body[i].domain =
                    IF resp.official THEN mainDomain ELSE resp.host
       /\ (resp.status = "OK" /\ resp.phase = "none")
          => PromptsIn(resp.body) # {}
       /\ (resp.status = "NotModified" \/ Has(resp.trace, "WriteFailed"))
          => PromptsIn(resp.body) = {}

\* C17 witness: a complete download of a list with an instance, served by
\* a self-hosted server under a host that is not the main domain.
C17_Witness ==
    /\ resp.handler = "renderList"
    /\ resp.status = "OK"
    /\ resp.phase = "none"
    /\ ~resp.official
    /\ resp.host # mainDomain
    /\ Len(resp.body) > 1
    /\ resp.body[Len(resp.body)].kind = "prompt"
    /\ resp.body[Len(resp.body)].domain = resp.host
\* C18: from the moment exportList has written status 200, its result is
\* success whatever happens to the writes that follow: when writing the
\* provenance header or the instance document fails, the handler returns
\* no error, as it does for a complete export.
C18_ExportReportsSuccess ==
    (resp.handler = "exportList" /\ Has(resp.trace, "WriteHeader"))
    => (resp.status = "OK" /\ resp.error = "")

\* C18 witness: an export of a list with an instance whose connection
\* breaks after the provenance header; the body stops there and the
\* handler's result is success.
C18_Witness ==
    /\ resp.handler = "exportList"
    /\ Has(resp.trace, "WriteFailed")
    /\ resp.phase = "none"
    /\ resp.body # << >>
    /\ Len(resp.body) < Len(BodyFor(resp))
    /\ resp.status = "OK"
    /\ resp.error = ""
====
